---- MODULE Spec2Model ----
(***************************************************************************)
(* Model of halo2_proofs/src/plonk/evaluation_gpu.rs: the ProveExpression  *)
(* algebra (new, from_expr, add_gate, flatten, reconstruct, get_degree)    *)
(* and the device evaluation walk (_eval_gpu, do_fft) of ProveExpression   *)
(* and LookupProveExpression.                                              *)
(*                                                                         *)
(* Data representation                                                     *)
(*   unit            <<kind, column_index, rotation>>, kind 0 = Fixed,     *)
(*                   1 = Advice, 2 = Instance (the derived Ord of the enum)*)
(*   ProveExpression <<"Unit", u>>, <<"Sum", l, r>>, <<"Product", l, r>>,  *)
(*                   <<"Y", ys>>                                           *)
(*   BTreeMap<u32,F> a function from y-orders to field elements            *)
(*   canonical map   a function from sorted sequences of units to          *)
(*                   BTreeMap<u32,F>                                       *)
(*   Expression      <<"Constant", x>>, <<"Fixed", <<col, rot>>>>,         *)
(*                   <<"Advice", <<col, rot>>>>, <<"Instance", ..>>,       *)
(*                   <<"Negated", e>>, <<"Sum", l, r>>, <<"Product", l, r>>*)
(*                   <<"Scaled", l, x>>                                    *)
(***************************************************************************)
EXTENDS Integers, Sequences, FiniteSets, TLC

VARIABLES
    gates,      \* the Expressions folded so far by add_gate, in order
    acc,        \* the ProveExpression accumulator
    flat,       \* the canonical map flatten returned (<<>> before)
    plan,       \* the tree reconstruct returned (<<>> before)
    degree,     \* the pair get_degree returned (<<>> before)
    phase,      \* "build", "flat", "plan", "sized"
    opA, opB, opC,  \* operands of the flatten laws
    resL, resR,     \* the two canonical maps compared
    law,            \* "none", "sum", "product", "roundtrip"
    root,       \* the expression tree under device evaluation
    chal,       \* the challenges [y, theta, beta, gamma] of the invocation
    seed,       \* selects the column data of the invocation
    pending,    \* the nodes still to return, in the order the recursion returns
    stack,      \* the (buffer, shift) pairs returned and not yet consumed
    heap,       \* contents of the device buffers not yet dropped
    nextBuf,    \* number of device buffers created so far
    owner,      \* buffer -> path of the node whose arm created it
    ycache,     \* the y-power cache of the invocation (the vector y)
    ret,        \* path -> what the node at that path returned
    kernelOut,  \* path -> buffer the node's combining kernel wrote
    readBy,     \* buffer -> paths of the nodes whose kernels read it
    fftPasses,  \* the passes of the most recent do_fft
    output,     \* the host vector read back (<<>> before)
    status,     \* "idle", "run", "done", "failed"
    launches,   \* the kernel dispatches (kernel.arg(..)...run()) so far, in order
    dofft       \* the locals of a do_fft call stepped pass by pass (<<>> before)

algVars == <<gates, acc, flat, plan, degree, phase>>

lawVars == <<opA, opB, opC, resL, resR, law>>

devVars == <<root, chal, seed, pending, stack, heap, nextBuf, owner, ycache, ret,
             kernelOut, readBy, fftPasses, output, status, launches, dofft>>

vars == <<algVars, lawVars, devVars>>

----------------------------------------------------------------------------
(* The scalar field F.  The program runs over Bn256 Fr; the model uses the *)
(* prime field of FieldModulus elements.                                   *)

FieldModulus == 257

F == 0 .. (FieldModulus - 1)

FAdd(a, b) == (a + b) % FieldModulus

FMul(a, b) == (a * b) % FieldModulus

FNeg(a) == (FieldModulus - a) % FieldModulus

RECURSIVE FPow(_, _)
FPow(a, n) ==
    IF n = 0 THEN 1
    ELSE LET h == FPow(a, n \div 2)
         IN IF n % 2 = 0 THEN FMul(h, h) ELSE FMul(a, FMul(h, h))

----------------------------------------------------------------------------
(* ProveExpressionUnit and its derived order.                              *)

Fixed == 0

Advice == 1

Instance == 2

UnitLess(u, v) ==
    \/ u[1] < v[1]
    \/ u[1] = v[1] /\ u[2] < v[2]
    \/ u[1] = v[1] /\ u[2] = v[2] /\ u[3] < v[3]

\* Ord of Vec<ProveExpressionUnit>: lexicographic, a proper prefix is less.
RECURSIVE KeyLess(_, _)
KeyLess(a, b) ==
    IF b = <<>> THEN FALSE
    ELSE IF a = <<>> THEN TRUE
    ELSE IF a[1] = b[1] THEN KeyLess(Tail(a), Tail(b))
    ELSE UnitLess(a[1], b[1])

MinUnit(S) == CHOOSE u \in S : \A v \in S : v = u \/ UnitLess(u, v)

MinKey(S) == CHOOSE k \in S : \A j \in S : j = k \/ KeyLess(k, j)

MinOrder(S) == CHOOSE o \in S : \A p \in S : o <= p

MaxOrder(S) == CHOOSE o \in S : \A p \in S : p <= o

\* The iteration order of a BTreeMap / BTreeSet: its keys ascending.
RECURSIVE OrdersAsc(_)
OrdersAsc(S) ==
    IF S = {} THEN <<>>
    ELSE LET o == MinOrder(S) IN <<o>> \o OrdersAsc(S \ {o})

RECURSIVE UnitsAsc(_)
UnitsAsc(S) ==
    IF S = {} THEN <<>>
    ELSE LET u == MinUnit(S) IN <<u>> \o UnitsAsc(S \ {u})

RECURSIVE KeysAsc(_)
KeysAsc(S) ==
    IF S = {} THEN <<>>
    ELSE LET k == MinKey(S) IN <<k>> \o KeysAsc(S \ {k})

\* BTreeMap::insert
MapPut(m, k, v) == [x \in (DOMAIN m) \cup {k} |-> IF x = k THEN v ELSE m[x]]

\* BTreeMap::remove
MapDel(m, k) == [x \in (DOMAIN m) \ {k} |-> m[x]]

\* BTreeMap::from_iter(vec![(k, v)])
MapOne(k, v) == [x \in {k} |-> v]

EmptyMap == [x \in {} |-> 0]

----------------------------------------------------------------------------
(* Constructors.                                                           *)

Unit(u) == <<"Unit", u>>

Sum(l, r) == <<"Sum", l, r>>

Product(l, r) == <<"Product", l, r>>

Y(ys) == <<"Y", ys>>

new == Y(MapOne(0, 0))

RECURSIVE from_expr(_)
from_expr(e) ==
    CASE e[1] = "Constant" -> Y(MapOne(0, e[2]))
      [] e[1] = "Fixed"    -> Unit(<<Fixed, e[2][1], e[2][2]>>)
      [] e[1] = "Advice"   -> Unit(<<Advice, e[2][1], e[2][2]>>)
      [] e[1] = "Instance" -> Unit(<<Instance, e[2][1], e[2][2]>>)
      [] e[1] = "Negated"  -> Product(from_expr(e[2]), Y(MapOne(0, FNeg(1))))
      [] e[1] = "Sum"      -> Sum(from_expr(e[2]), from_expr(e[3]))
      [] e[1] = "Product"  -> Product(from_expr(e[2]), from_expr(e[3]))
      [] e[1] = "Scaled"   -> Product(from_expr(e[2]), Y(MapOne(0, e[3])))

add_gate_swapped(self, e) == Sum(Product(from_expr(e), Y(MapOne(1, 1))), self)

add_gate(self, e) == Sum(Product(self, Y(MapOne(1, 1))), from_expr(e))

----------------------------------------------------------------------------
(* flatten and its helpers.                                                *)

\* for r in r { if let Some(f) = l.get_mut(&r.0) { *f = r.1 + f } else insert }
RECURSIVE ys_add_loop(_, _, _)
ys_add_loop(l, r, todo) ==
    IF todo = <<>> THEN l
    ELSE LET o == Head(todo)
             l2 == IF o \in DOMAIN l
                   THEN [l EXCEPT ![o] = FAdd(r[o], l[o])]
                   ELSE MapPut(l, o, r[o])
         IN ys_add_loop(l2, r, Tail(todo))

ys_add_assign_overwrite(l, r) ==
    [o \in (DOMAIN l) \cup (DOMAIN r) |-> IF o \in DOMAIN r THEN r[o] ELSE l[o]]

ys_add_assign_prune(l, r) ==
    LET m == ys_add_loop(l, r, OrdersAsc(DOMAIN r))
    IN [o \in {x \in DOMAIN m : m[x] # 0} |-> m[o]]

ys_add_assign(l, r) == ys_add_loop(l, r, OrdersAsc(DOMAIN r))

\* the (l, r) pairs of the nested loop of ys_mul, in loop order
RECURSIVE PairsInOrder(_, _)
PairsInOrder(ls, rs) ==
    IF ls = <<>> THEN <<>>
    ELSE [i \in 1 .. Len(rs) |-> <<Head(ls), rs[i]>>] \o PairsInOrder(Tail(ls), rs)

RECURSIVE ys_mul_loop(_, _, _, _)
ys_mul_loop(res, l, r, todo) ==
    IF todo = <<>> THEN res
    ELSE LET lo == Head(todo)[1]
             ro == Head(todo)[2]
             order == lo + ro
             f == FMul(l[lo], r[ro])
             res2 == IF order \in DOMAIN res
                     THEN [res EXCEPT ![order] = FAdd(f, res[order])]
                     ELSE MapPut(res, order, f)
         IN ys_mul_loop(res2, l, r, Tail(todo))

ys_mul_drop_collision(l, r) ==
    [order \in {lo + ro : lo \in DOMAIN l, ro \in DOMAIN r} |->
        LET lo == MaxOrder({x \in DOMAIN l : order - x \in DOMAIN r})
        IN FMul(l[lo], r[order - lo])]

ys_mul(l, r) ==
    ys_mul_loop(EmptyMap, l, r, PairsInOrder(OrdersAsc(DOMAIN l), OrdersAsc(DOMAIN r)))

\* Vec::sort on a vector of units (insertion into a sorted prefix)
RECURSIVE SortInsert(_, _)
SortInsert(s, u) ==
    IF s = <<>> THEN <<u>>
    ELSE IF UnitLess(u, Head(s)) THEN <<u>> \o s
    ELSE <<Head(s)>> \o SortInsert(Tail(s), u)

RECURSIVE SortUnits(_)
SortUnits(s) ==
    IF s = <<>> THEN <<>> ELSE SortInsert(SortUnits(Tail(s)), Head(s))

\* Sum arm: for (rk, rys) in r { get_mut / ys_add_assign, else insert }
RECURSIVE flatten_sum_loop(_, _, _)
flatten_sum_loop(l, r, todo) ==
    IF todo = <<>> THEN l
    ELSE LET rk == Head(todo)
             l2 == IF rk \in DOMAIN l
                   THEN [l EXCEPT ![rk] = ys_add_assign(l[rk], r[rk])]
                   ELSE MapPut(l, rk, r[rk])
         IN flatten_sum_loop(l2, r, Tail(todo))

\* Product arm: nested loop over the keys of l and of r
RECURSIVE flatten_product_loop(_, _, _, _)
flatten_product_loop(res, l, r, todo) ==
    IF todo = <<>> THEN res
    ELSE LET lk == Head(todo)[1]
             rk == Head(todo)[2]
             k == SortUnits(lk \o rk)
             ys == ys_mul(l[lk], r[rk])
             res2 == IF k \in DOMAIN res
                     THEN [res EXCEPT ![k] = ys_add_assign(res[k], ys)]
                     ELSE MapPut(res, k, ys)
         IN flatten_product_loop(res2, l, r, Tail(todo))

RECURSIVE flatten(_)
flatten(e) ==
    CASE e[1] = "Unit" -> MapOne(<<e[2]>>, MapOne(0, 1))
      [] e[1] = "Sum" ->
            LET l == flatten(e[2])
                r == flatten(e[3])
            IN flatten_sum_loop(l, r, KeysAsc(DOMAIN r))
      [] e[1] = "Product" ->
            LET l == flatten(e[2])
                r == flatten(e[3])
            IN flatten_product_loop(EmptyMap, l, r,
                    PairsInOrder(KeysAsc(DOMAIN l), KeysAsc(DOMAIN r)))
      [] e[1] = "Y" -> MapOne(<<>>, e[2])

----------------------------------------------------------------------------
(* reconstruct and its helpers.  A pair is <<us, coeff>>: us maps each     *)
(* unit of the monomial to its multiplicity, coeff is the BTreeMap<u32,F>. *)

\* the result of a call that panics (unwrap on None)
Panic == <<"Panic">>

___reconstruct_nonzero(coeff) ==
    LET nz == {o \in DOMAIN coeff : coeff[o] # 0}
    IN IF nz = {} THEN Y(MapOne(0, 0)) ELSE Y([o \in nz |-> coeff[o]])

___reconstruct(coeff) == Y(coeff)

RECURSIVE ____reconstruct_extra(_, _)
____reconstruct_extra(u, c) ==
    IF c = 0 THEN Y(MapOne(0, 1))
    ELSE Product(Unit(u), ____reconstruct_extra(u, c - 1))

RECURSIVE ____reconstruct(_, _)
____reconstruct(u, c) ==
    IF c = 1 THEN Unit(u)
    ELSE Product(Unit(u), ____reconstruct(u, c - 1))

RECURSIVE __reconstruct(_, _)
__reconstruct(us, coeff) ==
    IF DOMAIN us = {} THEN ___reconstruct(coeff)
    ELSE LET p == MinUnit(DOMAIN us)
         IN Product(__reconstruct(MapDel(us, p), coeff), ____reconstruct(p, us[p]))

\* lines 538-548: for every unit, the number of pairs whose map holds it
PairCounts(tree) ==
    [u \in UNION {DOMAIN tree[i][1] : i \in 1 .. Len(tree)} |->
        Cardinality({i \in 1 .. Len(tree) : u \in DOMAIN tree[i][1]})]

\* lines 550-558: max_u starts as the first key, max_c as 0; c > max_c replaces
RECURSIVE find_max_loop(_, _, _, _)
find_max_loop(map, todo, max_u, max_c) ==
    IF todo = <<>> THEN max_u
    ELSE LET u == Head(todo)
         IN IF map[u] > max_c
            THEN find_max_loop(map, Tail(todo), u, map[u])
            ELSE find_max_loop(map, Tail(todo), max_u, max_c)

RECURSIVE find_max_loop_last(_, _, _, _)
find_max_loop_last(map, todo, max_u, max_c) ==
    IF todo = <<>> THEN max_u
    ELSE LET u == Head(todo)
         IN IF map[u] >= max_c
            THEN find_max_loop_last(map, Tail(todo), u, map[u])
            ELSE find_max_loop_last(map, Tail(todo), max_u, max_c)

find_max_last(tree) ==
    LET map == PairCounts(tree)
    IN find_max_loop_last(map, UnitsAsc(DOMAIN map), MinUnit(DOMAIN map), 0)

\* defined when some pair holds a unit (map.first_entry().unwrap() succeeds)
find_max(tree) ==
    LET map == PairCounts(tree)
    IN find_max_loop(map, UnitsAsc(DOMAIN map), MinUnit(DOMAIN map), 0)

RECURSIVE PartL_drop(_, _)
PartL_drop(tree, max_u) ==
    IF tree = <<>> THEN <<>>
    ELSE LET k == Head(tree)[1]
             v == Head(tree)[2]
         IN IF max_u \notin DOMAIN k THEN PartL_drop(Tail(tree), max_u)
            ELSE <<(<<MapDel(k, max_u), v>>)>> \o PartL_drop(Tail(tree), max_u)

\* lines 563-577: the pairs holding max_u, with one occurrence removed
RECURSIVE PartL(_, _)
PartL(tree, max_u) ==
    IF tree = <<>> THEN <<>>
    ELSE LET k == Head(tree)[1]
             v == Head(tree)[2]
         IN IF max_u \notin DOMAIN k THEN PartL(Tail(tree), max_u)
            ELSE IF k[max_u] = 1
                 THEN <<(<<MapDel(k, max_u), v>>)>> \o PartL(Tail(tree), max_u)
                 ELSE <<(<<[k EXCEPT ![max_u] = k[max_u] - 1], v>>)>>
                          \o PartL(Tail(tree), max_u)

\* lines 573-575: the pairs not holding max_u
RECURSIVE PartR(_, _)
PartR(tree, max_u) ==
    IF tree = <<>> THEN <<>>
    ELSE IF max_u \notin DOMAIN Head(tree)[1]
         THEN <<Head(tree)>> \o PartR(Tail(tree), max_u)
         ELSE PartR(Tail(tree), max_u)

HasUnit(tree) == \E i \in 1 .. Len(tree) : DOMAIN tree[i][1] # {}

RECURSIVE _reconstruct(_)
_reconstruct(tree) ==
    IF Len(tree) = 1 THEN __reconstruct(tree[1][1], tree[1][2])
    ELSE IF ~HasUnit(tree) THEN Panic
    ELSE LET max_u == find_max(tree)
             lp == PartL(tree, max_u)
             rp == PartR(tree, max_u)
             l == _reconstruct(lp)
         IN IF l = Panic THEN Panic
            ELSE IF Len(rp) = 0 THEN Product(Unit(max_u), l)
            ELSE LET r == _reconstruct(rp)
                 IN IF r = Panic THEN Panic
                    ELSE Sum(Product(Unit(max_u), l), r)

UnitCounts_once(key) == [u \in {key[i] : i \in 1 .. Len(key)} |-> 1]

\* lines 590-603: each key vector becomes a unit -> multiplicity map
UnitCounts(key) ==
    [u \in {key[i] : i \in 1 .. Len(key)} |->
        Cardinality({i \in 1 .. Len(key) : key[i] = u})]

PairsOf(m) ==
    LET ks == KeysAsc(DOMAIN m)
    IN [i \in 1 .. Len(ks) |-> <<UnitCounts(ks[i]), m[ks[i]]>>]

reconstruct(m) == _reconstruct(PairsOf(m))

\* every vector _reconstruct is called on while reconstructing tree
RECURSIVE ReconstructCalls(_)
ReconstructCalls(tree) ==
    IF Len(tree) = 1 \/ ~HasUnit(tree) THEN {tree}
    ELSE LET max_u == find_max(tree)
             lp == PartL(tree, max_u)
             rp == PartR(tree, max_u)
         IN {tree} \cup ReconstructCalls(lp)
                   \cup (IF Len(rp) = 0 THEN {} ELSE ReconstructCalls(rp))

----------------------------------------------------------------------------
(* get_degree                                                              *)

RECURSIVE get_degree_second(_)
get_degree_second(e) ==
    CASE e[1] = "Unit" -> <<1, 0>>
      [] e[1] = "Sum" ->
            LET l == get_degree_second(e[2])
                r == get_degree_second(e[3])
            IN <<l[1] + r[1] + 1, l[2] + r[2]>>
      [] e[1] = "Product" ->
            LET l == get_degree_second(e[2])
                r == get_degree_second(e[3])
            IN <<l[1] + r[1] + 1, l[2] + r[2]>>
      [] e[1] = "Y" -> <<0, 0>>

RECURSIVE get_degree(_)
get_degree(e) ==
    CASE e[1] = "Unit" -> <<1, 0>>
      [] e[1] = "Sum" ->
            LET l == get_degree(e[2])
                r == get_degree(e[3])
            IN <<l[1] + r[1] + 1, l[1] + r[1]>>
      [] e[1] = "Product" ->
            LET l == get_degree(e[2])
                r == get_degree(e[3])
            IN <<l[1] + r[1] + 1, l[1] + r[1]>>
      [] e[1] = "Y" -> <<0, 0>>

----------------------------------------------------------------------------
(* Inputs: the circuit's gate Expressions and the operands of the flatten  *)
(* laws.                                                                   *)

MaxGates == 2

ExprA0 == <<"Advice", <<0, 0>>>>

ExprA1 == <<"Advice", <<1, 0>>>>

ExprA0Prev == <<"Advice", <<0, -1>>>>

ExprF0 == <<"Fixed", <<0, 0>>>>

ExprI0Next == <<"Instance", <<0, 1>>>>

\* a0*a1 + 3
GateMulAdd == <<"Sum", <<"Product", ExprA0, ExprA1>>, <<"Constant", 3>>>>

\* a0*a0*a1 + a1
GateSquare == <<"Sum", <<"Product", <<"Product", ExprA0, ExprA0>>, ExprA1>>, ExprA1>>

\* -f0
GateNeg == <<"Negated", ExprF0>>

\* 2 * i0(next)
GateScaled == <<"Scaled", ExprI0Next, 2>>

\* (f0 + a0) * (a0(prev) + 1)
GateProdOfSums ==
    <<"Product", <<"Sum", ExprF0, ExprA0>>, <<"Sum", ExprA0Prev, <<"Constant", 1>>>>>>

\* a1 * a0 - a0 * a1
GateCancel ==
    <<"Sum", <<"Product", ExprA1, ExprA0>>, <<"Negated", <<"Product", ExprA0, ExprA1>>>>>>

\* a0 * a0 * (a0(prev) + f0)
GateCommonFactors ==
    <<"Product", <<"Product", ExprA0, ExprA0>>, <<"Sum", ExprA0Prev, ExprF0>>>>

GateExprs ==
    {GateMulAdd, GateSquare, GateNeg, GateScaled, GateProdOfSums, GateCancel,
     GateCommonFactors}

UnitA0 == <<Advice, 0, 0>>

UnitA1 == <<Advice, 1, 0>>

ExprPool ==
    { Unit(UnitA0),
      Y((0 :> 2) @@ (1 :> 3)),
      Sum(Unit(UnitA0), Y((0 :> 1) @@ (1 :> 1))),
      Product(Unit(UnitA0), Y((0 :> FNeg(1)) @@ (2 :> 5))),
      Sum(Product(Unit(UnitA1), Unit(UnitA0)), Y(MapOne(0, 0))),
      add_gate(add_gate(new, GateMulAdd), GateNeg) }

----------------------------------------------------------------------------
(* The construction pipeline: new, add_gate per gate, flatten,             *)
(* reconstruct, get_degree.                                                *)

None == <<>>

\* no device evaluation is in progress
DeviceIdle ==
    /\ root = None /\ chal = None /\ seed = 0
    /\ pending = <<>> /\ stack = <<>>
    /\ heap = EmptyMap /\ nextBuf = 0 /\ owner = EmptyMap
    /\ ycache = <<>> /\ ret = EmptyMap /\ kernelOut = EmptyMap /\ readBy = EmptyMap
    /\ fftPasses = <<>> /\ output = None
    /\ status = "idle"
    /\ launches = <<>> /\ dofft = None

Init ==
    /\ gates = <<>>
    /\ acc = new
    /\ flat = None
    /\ plan = None
    /\ degree = None
    /\ phase = "build"
    /\ opA = None /\ opB = None /\ opC = None
    /\ resL = None /\ resR = None
    /\ law = "none"
    /\ DeviceIdle

AddGate(e) ==
    /\ phase = "build"
    /\ Len(gates) < MaxGates
    /\ acc' = add_gate(acc, e)
    /\ gates' = Append(gates, e)
    /\ UNCHANGED <<flat, plan, degree, phase, lawVars, devVars>>

Flatten ==
    /\ phase = "build"
    /\ flat' = flatten(acc)
    /\ phase' = "flat"
    /\ UNCHANGED <<gates, acc, plan, degree, lawVars, devVars>>

Reconstruct ==
    /\ phase = "flat"
    /\ plan' = reconstruct(flat)
    /\ phase' = "plan"
    /\ UNCHANGED <<gates, acc, flat, degree, lawVars, devVars>>

GetDegree ==
    /\ phase = "plan"
    /\ plan # Panic
    /\ degree' = get_degree(plan)
    /\ phase' = "sized"
    /\ UNCHANGED <<gates, acc, flat, plan, lawVars, devVars>>

Next ==
    \/ \E e \in GateExprs : AddGate(e)
    \/ Flatten
    \/ Reconstruct
    \/ GetDegree

Spec == Init /\ [][Next]_vars

----------------------------------------------------------------------------
(* flatten applied to the two sides of the commutativity and               *)
(* associativity laws.                                                     *)

InitFlatten ==
    /\ opA \in ExprPool
    /\ opB \in ExprPool
    /\ opC \in ExprPool
    /\ resL = None /\ resR = None
    /\ law = "none"
    /\ gates = <<>> /\ acc = new /\ flat = None /\ plan = None /\ degree = None
    /\ phase = "build"
    /\ DeviceIdle

FlattenSums ==
    /\ law = "none"
    /\ resL' = flatten(Sum(opA, opB))
    /\ resR' = flatten(Sum(opB, opA))
    /\ law' = "sum"
    /\ UNCHANGED <<algVars, opA, opB, opC, devVars>>

FlattenProducts ==
    /\ law = "none"
    /\ resL' = flatten(Product(Product(opA, opB), opC))
    /\ resR' = flatten(Product(opA, Product(opB, opC)))
    /\ law' = "product"
    /\ UNCHANGED <<algVars, opA, opB, opC, devVars>>

\* flatten, reconstruct, flatten again
FlattenRoundTrip ==
    /\ law = "none"
    /\ \E m \in {flatten(Sum(Product(opA, opB), opC))} :
        \E t \in {reconstruct(m)} :
           /\ resL' = m
           /\ resR' = IF t = Panic THEN EmptyMap ELSE flatten(t)
    /\ law' = "roundtrip"
    /\ UNCHANGED <<algVars, opA, opB, opC, devVars>>

NextFlatten == FlattenSums \/ FlattenProducts \/ FlattenRoundTrip

SpecFlatten == InitFlatten /\ [][NextFlatten]_vars

----------------------------------------------------------------------------
(* Reference semantics of a tree at a point: Unit = assigned value,        *)
(* Sum = +, Product = *, Y(c) = sum of c[i] * y^i.                         *)

AssignVals == {0, 5, 7}

ChallengeYs == {0, 2, 3}

RECURSIVE UnitsOf(_)
UnitsOf(e) ==
    CASE e[1] = "Unit" -> {e[2]}
      [] e[1] = "Y" -> {}
      [] OTHER -> UnitsOf(e[2]) \cup UnitsOf(e[3])

RECURSIVE YsValue(_, _, _)
YsValue(ys, todo, y) ==
    IF todo = {} THEN 0
    ELSE LET o == MinOrder(todo)
         IN FAdd(FMul(ys[o], FPow(y, o)), YsValue(ys, todo \ {o}, y))

RECURSIVE Evaluate(_, _, _)
Evaluate(e, asg, y) ==
    CASE e[1] = "Unit" -> asg[e[2]]
      [] e[1] = "Sum" -> FAdd(Evaluate(e[2], asg, y), Evaluate(e[3], asg, y))
      [] e[1] = "Product" -> FMul(Evaluate(e[2], asg, y), Evaluate(e[3], asg, y))
      [] e[1] = "Y" -> YsValue(e[2], DOMAIN e[2], y)

RECURSIVE Subtrees(_)
Subtrees(e) ==
    IF e[1] \in {"Sum", "Product"}
    THEN {e} \cup Subtrees(e[2]) \cup Subtrees(e[3])
    ELSE {e}

\* number of Sum and Product nodes
RECURSIVE OpCount(_)
OpCount(e) ==
    IF e[1] \in {"Sum", "Product"} THEN 1 + OpCount(e[2]) + OpCount(e[3]) ELSE 0

RECURSIVE UnitLeaves(_)
UnitLeaves(e) ==
    CASE e[1] = "Unit" -> 1
      [] e[1] = "Y" -> 0
      [] OTHER -> UnitLeaves(e[2]) + UnitLeaves(e[3])

Reconstructed == phase \in {"plan", "sized"}

ScenarioAssignment == (UnitA0 :> 5) @@ (UnitA1 :> 7)

----------------------------------------------------------------------------
\* C1: for every accumulator built by new, from_expr and add_gate, every
\* assignment of field values to its units and every y, the tree
\* reconstruct(flatten(acc)) has the same value as acc; for the single gate
\* a0*a1 + 3 with a0 = 5, a1 = 7, y = 2 both values are 38.
ReconstructPreservesValue ==
    Reconstructed =>
        /\ plan # Panic
        /\ \A asg \in [UnitsOf(acc) \cup UnitsOf(plan) -> AssignVals] :
             \A y \in ChallengeYs : Evaluate(plan, asg, y) = Evaluate(acc, asg, y)
        /\ gates = <<GateMulAdd>> =>
             /\ Evaluate(acc, ScenarioAssignment, 2) = 38
             /\ Evaluate(plan, ScenarioAssignment, 2) = 38

ReconstructPreservesValueWitness ==
    /\ phase = "plan"
    /\ gates = <<GateMulAdd>>
    /\ plan # acc
    /\ Evaluate(plan, ScenarioAssignment, 2) = 38

----------------------------------------------------------------------------
\* C2: flatten(Sum(a, b)) and flatten(Sum(b, a)) are the same canonical map:
\* the same monomial keys and, per key, the same y-orders with the same
\* coefficients, zero coefficients included.
FlattenSumCommutes ==
    law = "sum" =>
        /\ DOMAIN resL = DOMAIN resR
        /\ \A k \in DOMAIN resL :
             /\ DOMAIN resL[k] = DOMAIN resR[k]
             /\ \A o \in DOMAIN resL[k] : resL[k][o] = resR[k][o]

\* both operands hold the monomial a0, with different coefficient maps whose
\* order-0 coefficients cancel: the merged map keeps the zero entry
FlattenSumCommutesWitness ==
    /\ law = "sum"
    /\ opA # opB
    /\ <<UnitA0>> \in DOMAIN flatten(opA) \cap DOMAIN flatten(opB)
    /\ flatten(opA)[<<UnitA0>>][0] # 0
    /\ resL[<<UnitA0>>][0] = 0
    /\ Cardinality(DOMAIN resL[<<UnitA0>>]) >= 2

\* C3: flatten(Product(Product(a, b), c)) and flatten(Product(a, Product(b, c)))
\* are the same canonical map: the same sorted keys and the same
\* y-order-to-coefficient mappings.
FlattenProductAssociates ==
    law = "product" =>
        /\ DOMAIN resL = DOMAIN resR
        /\ \A k \in DOMAIN resL :
             /\ DOMAIN resL[k] = DOMAIN resR[k]
             /\ \A o \in DOMAIN resL[k] : resL[k][o] = resR[k][o]

\* three different operands, several monomials, and a coefficient mapping in
\* which orders of the three factors collided
FlattenProductAssociatesWitness ==
    /\ law = "product"
    /\ opA # opB /\ opB # opC /\ opA # opC
    /\ Cardinality(DOMAIN resL) >= 3
    /\ \E k \in DOMAIN resL : Len(k) >= 3 /\ Cardinality(DOMAIN resL[k]) >= 3

----------------------------------------------------------------------------
(* C4: the power of y each gate is multiplied by.                          *)

GateFlat(i) == flatten(from_expr(gates[i]))

\* gate i appears in the flattened accumulator at y-order p[i], with the
\* coefficients it has on its own
GatesAtOrders(p) ==
    \A i \in 1 .. Len(gates) :
        \A k \in DOMAIN GateFlat(i) :
            /\ k \in DOMAIN flat
            /\ p[i] \in DOMAIN flat[k]
            /\ (\A j \in 1 .. Len(gates) : j # i => p[j] # p[i])
                  => flat[k][p[i]] = GateFlat(i)[k][0]

\* C4 as stated: there are powers p[1] < p[2] < ... < p[n] of y, increasing
\* with the order of addition, at which the gates appear in flatten(acc).
LaterGateHigherPower ==
    phase = "flat" =>
        \E p \in [1 .. Len(gates) -> 0 .. Len(gates)] :
            /\ \A i, j \in 1 .. Len(gates) : i < j => p[i] < p[j]
            /\ GatesAtOrders(p)

\* C4 amended: gate g_i of n is multiplied by y^(n - i), so a gate added
\* earlier gets the higher power and the last gate gets y^0; every y-order
\* of flatten(acc) is one of these, or n on the empty monomial (the zero
\* of new()).
EarlierGateHigherPower ==
    phase = "flat" =>
        LET n == Len(gates)
        IN /\ GatesAtOrders([i \in 1 .. n |-> n - i])
           /\ \A k \in DOMAIN flat :
                DOMAIN flat[k] =
                    {n - i : i \in {j \in 1 .. n : k \in DOMAIN GateFlat(j)}}
                        \cup (IF k = <<>> THEN {n} ELSE {})
           /\ flat[<<>>][n] = 0

EarlierGateHigherPowerWitness ==
    /\ phase = "flat"
    /\ gates = <<GateMulAdd, GateNeg>>
    /\ flat[<<UnitA0, UnitA1>>] = MapOne(1, 1)
    /\ flat[<< <<Fixed, 0, 0>> >>] = MapOne(0, FNeg(1))

----------------------------------------------------------------------------
(* C5: the unit _reconstruct factors out.                                  *)

CallsOfPlan == ReconstructCalls(PairsOf(flat))

UnitsIn(tree) == UNION {DOMAIN tree[i][1] : i \in 1 .. Len(tree)}

\* number of pairs of tree whose monomial holds u
PairsHolding(tree, u) == Cardinality({i \in 1 .. Len(tree) : u \in DOMAIN tree[i][1]})

RECURSIVE OccurrencesUpTo(_, _, _)
OccurrencesUpTo(tree, u, n) ==
    IF n = 0 THEN 0
    ELSE (IF u \in DOMAIN tree[n][1] THEN tree[n][1][u] ELSE 0)
            + OccurrencesUpTo(tree, u, n - 1)

\* total occurrence frequency of u across the pairs, multiplicities counted
Occurrences(tree, u) == OccurrencesUpTo(tree, u, Len(tree))

\* C5 as stated: the unit factored out has the maximum total occurrence
\* frequency, the first such unit in ascending (kind, column, rotation) order.
FactorsMostFrequentUnit ==
    phase = "flat" =>
        \A tree \in CallsOfPlan :
            Len(tree) >= 2 /\ HasUnit(tree) =>
                LET u == find_max(tree)
                IN \A v \in UnitsIn(tree) :
                      /\ Occurrences(tree, v) <= Occurrences(tree, u)
                      /\ Occurrences(tree, v) = Occurrences(tree, u)
                            => v = u \/ UnitLess(u, v)

\* C5 amended: the unit factored out is held by the maximum number of pairs
\* (each pair counts once, whatever the unit's multiplicity in it), and it is
\* the first such unit in ascending (kind, column, rotation) order.
FactorsUnitOfMostPairs ==
    phase = "flat" =>
        \A tree \in CallsOfPlan :
            Len(tree) >= 2 /\ HasUnit(tree) =>
                LET u == find_max(tree)
                IN /\ u \in UnitsIn(tree)
                   /\ \A v \in UnitsIn(tree) :
                        /\ PairsHolding(tree, v) <= PairsHolding(tree, u)
                        /\ PairsHolding(tree, v) = PairsHolding(tree, u)
                              => v = u \/ UnitLess(u, v)

\* a step with a tie between two units, and a step where the unit of most
\* pairs is not the unit of most occurrences
FactorsUnitOfMostPairsWitness ==
    /\ phase = "flat"
    /\ \E tree \in CallsOfPlan :
          /\ Len(tree) >= 2
          /\ \E v \in UnitsIn(tree) :
                /\ v # find_max(tree)
                /\ PairsHolding(tree, v) = PairsHolding(tree, find_max(tree))
    /\ \E tree \in CallsOfPlan :
          /\ Len(tree) >= 2
          /\ \E v \in UnitsIn(tree) :
                Occurrences(tree, v) > PairsHolding(tree, v)

----------------------------------------------------------------------------
(* C6: operation count of the reconstructed tree.                          *)

RECURSIVE TotalLen(_)
TotalLen(ks) == IF ks = {} THEN 0
                ELSE LET k == CHOOSE x \in ks : TRUE
                     IN Len(k) + TotalLen(ks \ {k})

\* one Product per unit occurrence, one Sum per further monomial
NaiveCount(m) == TotalLen(DOMAIN m) + (Cardinality(DOMAIN m) - 1)

\* C6: reconstruct(m) has at most as many Sum and Product nodes as the naive
\* sum-of-products tree of m.
ReconstructNoWorseThanNaive ==
    Reconstructed => plan # Panic /\ OpCount(plan) <= NaiveCount(flat)

ReconstructNoWorseThanNaiveWitness ==
    /\ phase = "plan"
    /\ Cardinality(DOMAIN flat) >= 3
    /\ OpCount(plan) < NaiveCount(flat)

----------------------------------------------------------------------------
\* C7: get_degree is (1,0) on a Unit, (0,0) on a Y, and on Sum(a,b) and
\* Product(a,b) alike (a.0 + b.0 + 1, a.0 + b.0): only the first components
\* of the children are used, so the first component counts the Unit leaves
\* plus the Sum and Product nodes.
GetDegreeShape ==
    /\ \A t \in {acc} \cup (IF Reconstructed THEN {plan} ELSE {}) :
         \A s \in Subtrees(t) :
            CASE s[1] = "Unit" -> get_degree(s) = <<1, 0>>
              [] s[1] = "Y" -> get_degree(s) = <<0, 0>>
              [] OTHER ->
                    LET a == get_degree(s[2])
                        b == get_degree(s[3])
                    IN get_degree(s) = <<a[1] + b[1] + 1, a[1] + b[1]>>
    /\ phase = "sized" =>
         /\ degree[1] = UnitLeaves(plan) + OpCount(plan)
         /\ OpCount(plan) > 0 => degree[2] = degree[1] - 1

GetDegreeShapeWitness ==
    /\ phase = "sized"
    /\ \E s \in Subtrees(plan) : s[1] = "Sum" /\ get_degree(s[2])[2] > 0
    /\ \E s \in Subtrees(plan) : s[1] = "Product" /\ get_degree(s[3])[2] > 0
    /\ degree[1] >= 5

----------------------------------------------------------------------------
(* Device evaluation: _eval_gpu of LookupProveExpression and of            *)
(* ProveExpression, and do_fft.  A LookupProveExpression is                *)
(* <<"Expression", e>>, <<"LcTheta", l, r>>, <<"LcBeta", l, r>> or         *)
(* <<"AddGamma", l>>.  A device buffer is a number (the order of creation);*)
(* heap maps it to its contents, a function from 0 .. len-1 to F.  The     *)
(* recursion is followed in the order in which the calls return: pending   *)
(* lists the nodes whose arm has not run yet and stack holds the values    *)
(* returned to callers that have not consumed them yet.  A node is named   *)
(* by its path from the root (1 = first child, 2 = second child).          *)

\* k and extended_k of pk.vk.domain
K == 4

ExtendedK == 5

RECURSIVE Pow2(_)
Pow2(n) == IF n = 0 THEN 1 ELSE 2 * Pow2(n - 1)

Min(a, b) == IF a <= b THEN a ELSE b

origin_size == Pow2(K)

size == Pow2(ExtendedK)

local_work_size == 32

global_work_size == size \div local_work_size

rot_scale_unscaled == Pow2(0)

rot_scale == Pow2(ExtendedK - K)

\* pk.vk.domain.get_extended_omega(): a primitive 2^extended_k-th root of one
\* (3 generates the multiplicative group of the model field)
ExtendedOmega == FPow(3, (FieldModulus - 1) \div size)

OmegaPowers == [e \in 0 .. (size - 1) |-> FPow(ExtendedOmega, e)]

MAX_LOG2_RADIX == 8

LOG2_MAX_ELEMENTS == 32

MAX_LOG2_LOCAL_WORK_SIZE == 7

\* the values an uninitialised buffer (unsafe create_buffer) may hold
GarbageVals == {0, 1}

Uninit(g) == [i \in 0 .. (size - 1) |-> g]

\* the coefficient-domain polynomial of a column (fixed_polys, advice, instance)
ColumnPoly(sd, u) ==
    [j \in 0 .. (origin_size - 1) |->
        (sd * (j + 1) * (j + 2) + 11 * u[1] + 5 * u[2] + 1) % FieldModulus]

\* domain.coeff_to_extended_without_fft: the coefficients, zero-extended
coeff_to_extended_without_fft(poly) ==
    [j \in 0 .. (size - 1) |-> IF j \in DOMAIN poly THEN poly[j] ELSE 0]

\* the work items of a launch: global_work_size groups of local_work_size
Threads(gws, lws) == gws * lws

\* index i shifted by the deferred rotation rot, cyclically
Shifted(i, rot) == (i + rot) % size

\* <name>_eval_sum(res, l, r, l_rot, r_rot, size)
KernelSum(res, l, r, lrot, rrot, n) ==
    [i \in DOMAIN res |->
        IF i < n THEN FAdd(l[Shifted(i, lrot)], r[Shifted(i, rrot)]) ELSE res[i]]

\* <name>_eval_mul(res, l, r, l_rot, r_rot, size)
KernelMul(res, l, r, lrot, rrot, n) ==
    [i \in DOMAIN res |->
        IF i < n THEN FMul(l[Shifted(i, lrot)], r[Shifted(i, rrot)]) ELSE res[i]]

\* <name>_eval_constant(values, c)
KernelConstant(values, c, n) ==
    [i \in DOMAIN values |-> IF i < n THEN c[0] ELSE values[i]]

\* <name>_eval_lctheta(res, l, r, l_rot, r_rot, size, theta)
KernelLcTheta(res, l, r, lrot, rrot, n, theta) ==
    [i \in DOMAIN res |->
        IF i < n
        THEN FAdd(l[Shifted(i, lrot)], FMul(theta[0], r[Shifted(i, rrot)]))
        ELSE res[i]]

\* <name>_eval_lcbeta(l, r, l_rot, r_rot, size, beta): the first buffer is
\* combined in place
KernelLcBeta(l, r, lrot, rrot, n, beta) ==
    [i \in DOMAIN l |->
        IF i < n
        THEN FAdd(l[Shifted(i, lrot)], FMul(beta[0], r[Shifted(i, rrot)]))
        ELSE l[i]]

\* <name>_eval_addgamma(l, l_rot, size, gamma): the buffer is updated in place
KernelAddGamma(l, lrot, n, gamma) ==
    [i \in DOMAIN l |-> IF i < n THEN FAdd(l[Shifted(i, lrot)], gamma[0]) ELSE l[i]]

\* <name>_eval_fft_prepare(origin_values, values, origin_size)
KernelFftPrepare(origin, values, osize, n) ==
    [i \in DOMAIN values |->
        IF i < n THEN (IF i < osize THEN origin[i] ELSE 0) ELSE values[i]]

\* sum over j in lo .. hi of x[index + j*t] * omega^(e*j)
RECURSIVE RadixSum(_, _, _, _, _, _)
RadixSum(x, index, t, e, lo, hi) ==
    IF lo = hi THEN FMul(x[index + lo * t], OmegaPowers[(e * lo) % size])
    ELSE LET mid == (lo + hi) \div 2
         IN FAdd(RadixSum(x, index, t, e, lo, mid), RadixSum(x, index, t, e, mid + 1, hi))

\* <name>_radix_fft(src, dst, pq, omegas, local, n, log_p, deg, max_deg): one
\* pass of the transform; group index = m*p + k combines the 2^deg inputs
\* src[index + j*t] into the outputs dst[(m*2^deg + i)*p + k]
KernelRadixFft(src, dst, log_p, deg, gws) ==
    LET p == Pow2(log_p)
        count == Pow2(deg)
        t == size \div count
    IN [q \in DOMAIN dst |->
          LET k == q % p
              i == (q \div p) % count
              m == (q \div p) \div count
              index == m * p + k
              e == (t \div p) * k + (size \div count) * i
          IN IF index < gws THEN RadixSum(src, index, t, e, 0, count - 1) ELSE dst[q]]

\* lines 378-387: the twiddle table pq
pq_table(max_deg) ==
    LET twiddle == FPow(ExtendedOmega, size \div Pow2(max_deg))
    IN [i \in 0 .. ((Pow2(max_deg) \div 2) - 1) |->
          IF i = 0 THEN 1 ELSE IF max_deg > 1 THEN FPow(twiddle, i) ELSE 0]

\* lines 391-395: omegas[i] = omega^(2^i)
RECURSIVE omega_sq(_)
omega_sq(i) ==
    IF i = 0 THEN ExtendedOmega
    ELSE LET prev == omega_sq(i - 1) IN FMul(prev, prev)

omegas_table == [i \in 0 .. (LOG2_MAX_ELEMENTS - 1) |-> omega_sq(i)]

\* lines 400-431: the pass loop.  st = [src, dst, log_p, h, passes]
RECURSIVE do_fft_loop(_, _)
do_fft_loop(st, max_deg) ==
    IF ~(st.log_p < ExtendedK) THEN st
    ELSE LET deg == Min(max_deg, ExtendedK - st.log_p)
             lws == Pow2(Min(deg - 1, MAX_LOG2_LOCAL_WORK_SIZE))
             gws == size \div Pow2(deg)
             written == KernelRadixFft(st.h[st.src], st.h[st.dst], st.log_p, deg, gws)
         IN do_fft_loop(
                [src |-> st.dst,
                 dst |-> st.src,
                 log_p |-> st.log_p + deg,
                 h |-> [st.h EXCEPT ![st.dst] = written],
                 passes |-> Append(st.passes,
                              [log_p |-> st.log_p, deg |-> deg, gws |-> gws,
                               lws |-> lws, src |-> st.src, dst |-> st.dst])],
                max_deg)

\* do_fft(pk, program, values): h holds values; dst_buffer, pq_buffer and
\* omegas_buffer are created as first, first + 1 and first + 2
do_fft(h, values, first, g) ==
    LET max_deg == Min(MAX_LOG2_RADIX, ExtendedK)
        h1 == h @@ (first :> Uninit(g))
                @@ ((first + 1) :> pq_table(max_deg))
                @@ ((first + 2) :> omegas_table)
    IN do_fft_loop([src |-> values, dst |-> first, log_p |-> 0, h |-> h1,
                    passes |-> <<>>], max_deg)

----------------------------------------------------------------------------
(* The tree walk of _eval_gpu.                                             *)

\* the nodes of t in the order in which their _eval_gpu calls return
RECURSIVE PostOrder(_, _)
PostOrder(t, path) ==
    CASE t[1] \in {"Sum", "Product", "LcTheta", "LcBeta"} ->
            PostOrder(t[2], path \o <<1>>) \o PostOrder(t[3], path \o <<2>>)
                \o <<(<<path, t[1], <<>>>>)>>
      [] t[1] \in {"AddGamma", "Expression"} ->
            PostOrder(t[2], path \o <<1>>) \o <<(<<path, t[1], <<>>>>)>>
      [] OTHER -> <<(<<path, t[1], t[2]>>)>>

\* dropping buffers (the end of the scope that owns them)
Drop(h, bufs) == [b \in (DOMAIN h) \ bufs |-> h[b]]

\* the kernel kname of the node at path has read the buffers bufs
AddReads(rb, bufs, path, kname) ==
    [b \in (DOMAIN rb) \cup bufs |->
        (IF b \in DOMAIN rb THEN rb[b] ELSE {})
            \cup (IF b \in bufs THEN {<<path, kname>>} ELSE {})]

\* one kernel.arg(..)...run(): the node whose arm dispatches it, the kernel,
\* the buffers given without a shift, and the (buffer, shift) operands
Launch(path, kname, plain, shifted) ==
    [node |-> path, kernel |-> kname, plain |-> plain,
     shifted |-> [i \in DOMAIN shifted |-> <<shifted[i].buf, shifted[i].rot>>]]

Returned(tag, buf, rot, val) == [tag |-> tag, buf |-> buf, rot |-> rot, val |-> val]

NodeIs(tag) == status = "run" /\ pending # <<>> /\ Head(pending)[2] = tag

PathNow == Head(pending)[1]

\* the values the two recursive calls of a binary arm returned
LeftResult == stack[Len(stack) - 1]

RightResult == stack[Len(stack)]

AllThreads == Threads(global_work_size, local_work_size)

EvalSum_in_place ==
    /\ NodeIs("Sum")
    /\ LET l == LeftResult
           r == RightResult
           h2 == [heap EXCEPT ![l.buf] =
                     KernelSum(heap[l.buf], heap[l.buf], heap[r.buf], l.rot, r.rot,
                               AllThreads)]
       IN /\ heap' = Drop(h2, {r.buf})
          /\ nextBuf' = nextBuf
          /\ owner' = owner
          /\ kernelOut' = kernelOut @@ (PathNow :> l.buf)
          /\ readBy' = AddReads(readBy, {l.buf, r.buf}, PathNow, "eval_sum")
          /\ ret' = ret @@ (PathNow :> Returned("Sum", l.buf, 0, h2[l.buf]))
          /\ stack' = Append(SubSeq(stack, 1, Len(stack) - 2), [buf |-> l.buf, rot |-> 0])
          /\ launches' = Append(launches, Launch(PathNow, "eval_sum", <<l.buf>>, <<l, r>>))
    /\ pending' = Tail(pending)
    /\ UNCHANGED <<algVars, lawVars, dofft, root, chal, seed, ycache, fftPasses, output, status>>

\* lines 261-280
EvalSum ==
    /\ NodeIs("Sum")
    /\ \E g \in GarbageVals :
        LET l == LeftResult
            r == RightResult
            res == nextBuf
            h1 == heap @@ (res :> Uninit(g))
            h2 == [h1 EXCEPT ![res] =
                      KernelSum(h1[res], h1[l.buf], h1[r.buf], l.rot, r.rot, AllThreads)]
        IN /\ heap' = Drop(h2, {l.buf, r.buf})
           /\ nextBuf' = nextBuf + 1
           /\ owner' = owner @@ (res :> PathNow)
           /\ kernelOut' = kernelOut @@ (PathNow :> res)
           /\ readBy' = AddReads(readBy, {l.buf, r.buf}, PathNow, "eval_sum")
           /\ ret' = ret @@ (PathNow :> Returned("Sum", res, 0, h2[res]))
           /\ stack' = Append(SubSeq(stack, 1, Len(stack) - 2), [buf |-> res, rot |-> 0])
           /\ launches' = Append(launches, Launch(PathNow, "eval_sum", <<res>>, <<l, r>>))
    /\ pending' = Tail(pending)
    /\ UNCHANGED <<algVars, lawVars, dofft, root, chal, seed, ycache, fftPasses, output, status>>

\* lines 281-303
EvalProduct ==
    /\ NodeIs("Product")
    /\ \E g \in GarbageVals :
        LET l == LeftResult
            r == RightResult
            res == nextBuf
            h1 == heap @@ (res :> Uninit(g))
            h2 == [h1 EXCEPT ![res] =
                      KernelMul(h1[res], h1[l.buf], h1[r.buf], l.rot, r.rot, AllThreads)]
        IN /\ heap' = Drop(h2, {l.buf, r.buf})
           /\ nextBuf' = nextBuf + 1
           /\ owner' = owner @@ (res :> PathNow)
           /\ kernelOut' = kernelOut @@ (PathNow :> res)
           /\ readBy' = AddReads(readBy, {l.buf, r.buf}, PathNow, "eval_mul")
           /\ ret' = ret @@ (PathNow :> Returned("Product", res, 0, h2[res]))
           /\ stack' = Append(SubSeq(stack, 1, Len(stack) - 2), [buf |-> res, rot |-> 0])
           /\ launches' = Append(launches, Launch(PathNow, "eval_mul", <<res>>, <<l, r>>))
    /\ pending' = Tail(pending)
    /\ UNCHANGED <<algVars, lawVars, dofft, root, chal, seed, ycache, fftPasses, output, status>>

RECURSIVE ExtendYs_squares(_, _)
ExtendYs_squares(y, n) ==
    IF Len(y) >= n THEN y
    ELSE ExtendYs_squares(Append(y, FMul(y[Len(y)], y[Len(y)])), n)

\* lines 306-308: push y[1] * y.last() until the vector has n entries
RECURSIVE ExtendYs(_, _)
ExtendYs(y, n) ==
    IF Len(y) >= n THEN y ELSE ExtendYs(Append(y, FMul(y[2], y[Len(y)])), n)

\* lines 309-311: fold over the coefficient map, y[order] being y[order + 1] here
RECURSIVE DotYs(_, _, _)
DotYs(coeff, y, todo) ==
    IF todo = <<>> THEN 0
    ELSE LET o == todo[Len(todo)]
         IN FAdd(DotYs(coeff, y, SubSeq(todo, 1, Len(todo) - 1)), FMul(y[o + 1], coeff[o]))

\* lines 304-322
EvalY ==
    /\ NodeIs("Y")
    /\ DOMAIN Head(pending)[3] # {}
    /\ \E g \in GarbageVals :
        LET coeff == Head(pending)[3]
            max_y_order == MaxOrder(DOMAIN coeff)
            y == ExtendYs(ycache, max_y_order + 1)
            c == DotYs(coeff, y, OrdersAsc(DOMAIN coeff))
            values == nextBuf
            cbuf == nextBuf + 1
            h1 == heap @@ (values :> Uninit(g)) @@ (cbuf :> (0 :> c))
            h2 == [h1 EXCEPT ![values] = KernelConstant(h1[values], h1[cbuf], AllThreads)]
        IN /\ ycache' = y
           /\ heap' = Drop(h2, {cbuf})
           /\ nextBuf' = nextBuf + 2
           /\ owner' = owner @@ (values :> PathNow) @@ (cbuf :> PathNow)
           /\ kernelOut' = kernelOut @@ (PathNow :> values)
           /\ readBy' = AddReads(readBy, {cbuf}, PathNow, "eval_constant")
           /\ ret' = ret @@ (PathNow :> Returned("Y", values, 0, h2[values]))
           /\ stack' = Append(stack, [buf |-> values, rot |-> 0])
           /\ launches' = Append(launches, Launch(PathNow, "eval_constant", <<values, cbuf>>, <<>>))
    /\ pending' = Tail(pending)
    /\ UNCHANGED <<algVars, lawVars, dofft, root, chal, seed, fftPasses, output, status>>

\* the dispatches of the Unit arm: the prepare kernel (lines 349-353), then
\* one radix_fft per pass of do_fft (lines 415-425); first is the number of
\* the buffer values, followed by origin_values, dst, pq and omegas
UnitLaunches(path, first, passes) ==
    <<Launch(path, "eval_fft_prepare", <<first + 1, first>>, <<>>)>>
        \o [i \in 1 .. Len(passes) |->
              Launch(path, "radix_fft",
                     <<passes[i].src, passes[i].dst, first + 3, first + 4>>, <<>>)]

\* lines 323-355
EvalUnit ==
    /\ NodeIs("Unit")
    /\ \E g1, g2 \in GarbageVals :
        LET u == Head(pending)[3]
            values == nextBuf
            origin == nextBuf + 1
            origin_values == coeff_to_extended_without_fft(ColumnPoly(seed, u))
            h1 == heap @@ (values :> Uninit(g1)) @@ (origin :> origin_values)
            h2 == [h1 EXCEPT ![values] =
                      KernelFftPrepare(h1[origin], h1[values], origin_size, AllThreads)]
            rotation == u[3]
        IN \E fft \in {do_fft(h2, values, nextBuf + 2, g2)} :
           /\ heap' = Drop(fft.h, {origin, fft.dst, nextBuf + 3, nextBuf + 4})
           /\ nextBuf' = nextBuf + 5
           /\ owner' = owner @@ [b \in nextBuf .. (nextBuf + 4) |-> PathNow]
           /\ kernelOut' = kernelOut @@ (PathNow :> fft.src)
           /\ readBy' =
                AddReads(
                    AddReads(readBy, {origin}, PathNow, "eval_fft_prepare"),
                    {fft.passes[i].src : i \in 1 .. Len(fft.passes)}
                        \cup {nextBuf + 3, nextBuf + 4},
                    PathNow, "radix_fft")
           /\ fftPasses' = fft.passes
           /\ ret' = ret @@ (PathNow :>
                        Returned("Unit", fft.src, rotation * rot_scale, fft.h[fft.src]))
           /\ stack' = Append(stack, [buf |-> fft.src, rot |-> rotation * rot_scale])
           /\ launches' = launches \o UnitLaunches(PathNow, nextBuf, fft.passes)
    /\ pending' = Tail(pending)
    /\ UNCHANGED <<algVars, lawVars, dofft, root, chal, seed, ycache, output, status>>

\* line 148
EvalExpression ==
    /\ NodeIs("Expression")
    /\ ret' = ret @@ (PathNow :>
                [ret[PathNow \o <<1>>] EXCEPT !.tag = "Expression"])
    /\ pending' = Tail(pending)
    /\ UNCHANGED <<algVars, lawVars, dofft, root, chal, seed, stack, heap, nextBuf, owner,
                   ycache, kernelOut, readBy, fftPasses, output, status, launches>>

EvalLcTheta_returns_left ==
    /\ NodeIs("LcTheta")
    /\ \E g \in GarbageVals :
        LET l == LeftResult
            r == RightResult
            res == nextBuf
            theta == nextBuf + 1
            h1 == heap @@ (res :> Uninit(g)) @@ (theta :> (0 :> chal.theta))
            h2 == [h1 EXCEPT ![res] =
                      KernelLcTheta(h1[res], h1[l.buf], h1[r.buf], l.rot, r.rot,
                                    AllThreads, h1[theta])]
        IN /\ heap' = Drop(h2, {res, r.buf, theta})
           /\ nextBuf' = nextBuf + 2
           /\ owner' = owner @@ (res :> PathNow) @@ (theta :> PathNow)
           /\ kernelOut' = kernelOut @@ (PathNow :> res)
           /\ readBy' = AddReads(readBy, {l.buf, r.buf, theta}, PathNow, "eval_lctheta")
           /\ ret' = ret @@ (PathNow :> Returned("LcTheta", l.buf, 0, h2[l.buf]))
           /\ stack' = Append(SubSeq(stack, 1, Len(stack) - 2), [buf |-> l.buf, rot |-> 0])
           /\ launches' = Append(launches, Launch(PathNow, "eval_lctheta", <<res, theta>>, <<l, r>>))
    /\ pending' = Tail(pending)
    /\ UNCHANGED <<algVars, lawVars, dofft, root, chal, seed, ycache, fftPasses, output, status>>

\* lines 149-170
EvalLcTheta ==
    /\ NodeIs("LcTheta")
    /\ \E g \in GarbageVals :
        LET l == LeftResult
            r == RightResult
            res == nextBuf
            theta == nextBuf + 1
            h1 == heap @@ (res :> Uninit(g)) @@ (theta :> (0 :> chal.theta))
            h2 == [h1 EXCEPT ![res] =
                      KernelLcTheta(h1[res], h1[l.buf], h1[r.buf], l.rot, r.rot,
                                    AllThreads, h1[theta])]
        IN /\ heap' = Drop(h2, {l.buf, r.buf, theta})
           /\ nextBuf' = nextBuf + 2
           /\ owner' = owner @@ (res :> PathNow) @@ (theta :> PathNow)
           /\ kernelOut' = kernelOut @@ (PathNow :> res)
           /\ readBy' = AddReads(readBy, {l.buf, r.buf, theta}, PathNow, "eval_lctheta")
           /\ ret' = ret @@ (PathNow :> Returned("LcTheta", res, 0, h2[res]))
           /\ stack' = Append(SubSeq(stack, 1, Len(stack) - 2), [buf |-> res, rot |-> 0])
           /\ launches' = Append(launches, Launch(PathNow, "eval_lctheta", <<res, theta>>, <<l, r>>))
    /\ pending' = Tail(pending)
    /\ UNCHANGED <<algVars, lawVars, dofft, root, chal, seed, ycache, fftPasses, output, status>>

\* lines 171-191: res is created and returned, the kernel is given l.0 and r.0
EvalLcBeta ==
    /\ NodeIs("LcBeta")
    /\ \E g \in GarbageVals :
        LET l == LeftResult
            r == RightResult
            res == nextBuf
            beta == nextBuf + 1
            h1 == heap @@ (res :> Uninit(g)) @@ (beta :> (0 :> chal.beta))
            h2 == [h1 EXCEPT ![l.buf] =
                      KernelLcBeta(h1[l.buf], h1[r.buf], l.rot, r.rot,
                                   AllThreads, h1[beta])]
        IN /\ heap' = Drop(h2, {l.buf, r.buf, beta})
           /\ nextBuf' = nextBuf + 2
           /\ owner' = owner @@ (res :> PathNow) @@ (beta :> PathNow)
           /\ kernelOut' = kernelOut @@ (PathNow :> l.buf)
           /\ readBy' = AddReads(readBy, {l.buf, r.buf, beta}, PathNow, "eval_lcbeta")
           /\ ret' = ret @@ (PathNow :> Returned("LcBeta", res, 0, h2[res]))
           /\ stack' = Append(SubSeq(stack, 1, Len(stack) - 2), [buf |-> res, rot |-> 0])
           /\ launches' = Append(launches, Launch(PathNow, "eval_lcbeta", <<beta>>, <<l, r>>))
    /\ pending' = Tail(pending)
    /\ UNCHANGED <<algVars, lawVars, dofft, root, chal, seed, ycache, fftPasses, output, status>>

\* lines 192-203: no result buffer is created, l.0 is updated and returned
EvalAddGamma ==
    /\ NodeIs("AddGamma")
    /\ LET l == stack[Len(stack)]
           gamma == nextBuf
           h1 == heap @@ (gamma :> (0 :> chal.gamma))
           h2 == [h1 EXCEPT ![l.buf] =
                     KernelAddGamma(h1[l.buf], l.rot, AllThreads, h1[gamma])]
       IN /\ heap' = Drop(h2, {gamma})
          /\ nextBuf' = nextBuf + 1
          /\ owner' = owner @@ (gamma :> PathNow)
          /\ kernelOut' = kernelOut @@ (PathNow :> l.buf)
          /\ readBy' = AddReads(readBy, {l.buf, gamma}, PathNow, "eval_addgamma")
          /\ ret' = ret @@ (PathNow :> Returned("AddGamma", l.buf, 0, h2[l.buf]))
          /\ stack' = Append(SubSeq(stack, 1, Len(stack) - 1), [buf |-> l.buf, rot |-> 0])
          /\ launches' = Append(launches, Launch(PathNow, "eval_addgamma", <<gamma>>, <<l>>))
    /\ pending' = Tail(pending)
    /\ UNCHANGED <<algVars, lawVars, dofft, root, chal, seed, ycache, fftPasses, output, status>>

\* lines 101-112 and 226-228: program.read_into_buffer(&values_buf.0, input)
ReadIntoBuffer ==
    /\ status = "run"
    /\ pending = <<>>
    /\ output' = heap[stack[1].buf]
    /\ readBy' = AddReads(readBy, {stack[1].buf}, <<0>>, "read_into_buffer")
    /\ heap' = Drop(heap, {stack[1].buf})
    /\ stack' = <<>>
    /\ status' = "done"
    /\ UNCHANGED <<algVars, lawVars, dofft, root, chal, seed, pending, nextBuf, owner, ycache,
                   ret, kernelOut, fftPasses, launches>>

----------------------------------------------------------------------------
(* Inputs of a device evaluation.                                          *)

UnitA1Next == <<Advice, 1, 1>>

UnitF0 == <<Fixed, 0, 0>>

UnitI0Prev == <<Instance, 0, -1>>

Expr(e) == <<"Expression", e>>

LcTheta(l, r) == <<"LcTheta", l, r>>

LcBeta(l, r) == <<"LcBeta", l, r>>

AddGamma(l) == <<"AddGamma", l>>

EvalTrees ==
    { LcTheta(Expr(Unit(UnitA0)), Expr(Unit(UnitA1Next))),
      LcBeta(Expr(Unit(UnitF0)), Expr(Y(MapOne(0, 3)))),
      AddGamma(LcTheta(Expr(Unit(UnitA0)), Expr(Unit(UnitI0Prev)))),
      LcBeta(AddGamma(Expr(Y((0 :> 1) @@ (2 :> 1)))),
             AddGamma(AddGamma(Expr(Sum(Unit(UnitA0), Y(MapOne(1, 2))))))),
      reconstruct(flatten(add_gate(new, GateMulAdd))),
      Product(Unit(UnitI0Prev), Sum(Unit(UnitA1Next), Y((3 :> 1) @@ (0 :> 5)))),
      Sum(Product(Y(MapOne(0, 3)), Y(MapOne(2, 1))),
          Sum(Y((5 :> 2) @@ (1 :> 4)), Y(MapOne(3, 6)))) }

Challenges ==
    { [y |-> 2, theta |-> 9, beta |-> 4, gamma |-> 7],
      [y |-> 3, theta |-> 1, beta |-> 0, gamma |-> FNeg(1)] }

Seeds == {1, 2}

\* eval_gpu: ys = vec![F::one(), y], then self._eval_gpu(...)
InitEval ==
    /\ gates = <<>> /\ acc = new /\ flat = None /\ plan = None /\ degree = None
    /\ phase = "build"
    /\ opA = None /\ opB = None /\ opC = None
    /\ resL = None /\ resR = None
    /\ law = "none"
    /\ root \in EvalTrees
    /\ chal \in Challenges
    /\ seed \in Seeds
    /\ pending = PostOrder(root, <<>>)
    /\ stack = <<>>
    /\ heap = EmptyMap /\ nextBuf = 0 /\ owner = EmptyMap
    /\ ycache = <<1, chal.y>>
    /\ ret = EmptyMap /\ kernelOut = EmptyMap /\ readBy = EmptyMap
    /\ fftPasses = <<>> /\ output = None
    /\ status = "run"
    /\ launches = <<>> /\ dofft = None

NextEval ==
    \/ EvalSum
    \/ EvalProduct
    \/ EvalY
    \/ EvalUnit
    \/ EvalExpression
    \/ EvalLcTheta
    \/ EvalLcBeta
    \/ EvalAddGamma
    \/ ReadIntoBuffer

SpecEval == InitEval /\ [][NextEval]_vars

----------------------------------------------------------------------------
(* Claims about the device evaluation.                                     *)

Parent(p) == SubSeq(p, 1, Len(p) - 1)

ChildrenOf(p) == {p \o <<1>>, p \o <<2>>} \cap DOMAIN ret

IsPrefix(p, q) == Len(p) <= Len(q) /\ SubSeq(q, 1, Len(p)) = p

\* a node whose arm creates no result buffer and hands on its child's
InPlace(p) == ret[p].tag \in {"AddGamma", "Expression"}

\* l + c * r pointwise, each side read at its deferred shift
LinearCombination(l, c, r) ==
    [i \in 0 .. (size - 1) |->
        FAdd(l.val[Shifted(i, l.rot)], FMul(c, r.val[Shifted(i, r.rot)]))]

\* C8: LcTheta(l, r) returns, with deferred shift 0, the buffer its kernel
\* wrote, and that buffer holds at every index i the value
\* eval(l)[i + shift of l] + theta * eval(r)[i + shift of r].
LcThetaCombines ==
    \A p \in DOMAIN ret :
        ret[p].tag = "LcTheta" =>
            /\ ret[p].rot = 0
            /\ ret[p].buf = kernelOut[p]
            /\ ret[p].val = LinearCombination(ret[p \o <<1>>], chal.theta, ret[p \o <<2>>])

\* theta = 9, a right operand with a non-zero deferred shift, and a result
\* that differs from both operands
LcThetaCombinesWitness ==
    /\ chal.theta = 9
    /\ \E p \in DOMAIN ret :
          /\ ret[p].tag = "LcTheta"
          /\ ret[p \o <<2>>].rot # 0
          /\ ret[p].val # ret[p \o <<1>>].val
          /\ ret[p].val # ret[p \o <<2>>].val
          /\ \E i \in 0 .. (size - 1) : ret[p \o <<2>>].val[i] # 0

\* C9: LcBeta(l, r) returns the buffer its kernel was given as output and
\* wrote, holding eval(l) + beta * eval(r) at every index.
LcBetaCombines ==
    \A p \in DOMAIN ret :
        ret[p].tag = "LcBeta" =>
            /\ ret[p].rot = 0
            /\ ret[p].buf = kernelOut[p]
            /\ ret[p].val = LinearCombination(ret[p \o <<1>>], chal.beta, ret[p \o <<2>>])

\* the nodes that run a kernel (an Expression node only delegates to the
\* tree it wraps)
KernelNodes == {p \in DOMAIN ret : ret[p].tag # "Expression"}

\* C10 as stated: every node, AddGamma included, returns a buffer its own arm
\* created, different from the buffers its children returned; no two nodes
\* return the same buffer; a returned buffer is read only by the kernel of
\* the parent (besides the kernels of the node that created it) and is
\* dropped once the parent has returned.
EveryNodeOwnsItsResult ==
    /\ \A p \in KernelNodes :
          /\ owner[ret[p].buf] = p
          /\ \A c \in ChildrenOf(p) :
                /\ ret[c].buf # ret[p].buf
                /\ ret[c].buf \notin DOMAIN heap
                /\ \A rd \in readBy[ret[c].buf] : rd[1] \in {owner[ret[c].buf], p}
    /\ \A p, q \in KernelNodes : p # q => ret[p].buf # ret[q].buf

\* q is reached from p through nodes that hand on their child's buffer
HandsDown(p, q) ==
    /\ IsPrefix(p, q)
    /\ \A n \in Len(p) .. (Len(q) - 1) :
          LET mid == SubSeq(q, 1, n)
          IN mid \in DOMAIN ret /\ InPlace(mid)

\* C10 amended: a Unit, Y, Sum, Product, LcTheta or LcBeta node returns a
\* buffer its own arm created, different from its children's, and its
\* children's buffers are dropped when it returns; an AddGamma node creates no
\* result buffer: its kernel updates the child's buffer in place and the node
\* returns that same buffer (an Expression node returns the buffer of the
\* tree it wraps).  So two nodes return the same buffer exactly along a chain
\* of AddGamma/Expression nodes, and such a buffer is read by the kernel of
\* every AddGamma of the chain and then by the kernel of the parent of the
\* chain's top node (or by the host).  Nothing stays allocated at the end.
OwnedExceptInPlace ==
    /\ \A p \in DOMAIN ret :
          IF InPlace(p)
          THEN /\ ret[p].buf = ret[p \o <<1>>].buf
               /\ ret[p].buf \in DOMAIN heap \/ Parent(p) \in DOMAIN ret \/ status = "done"
               /\ ret[p].tag = "AddGamma" =>
                    /\ kernelOut[p] = ret[p].buf
                    /\ <<p, "eval_addgamma">> \in readBy[ret[p].buf]
          ELSE /\ owner[ret[p].buf] = p
               /\ \A c \in ChildrenOf(p) :
                     /\ ret[c].buf # ret[p].buf
                     /\ ret[c].buf \notin DOMAIN heap
                     /\ \E k \in {"eval_sum", "eval_mul", "eval_lctheta", "eval_lcbeta"} :
                           <<p, k>> \in readBy[ret[c].buf]
    /\ \A p, q \in DOMAIN ret :
          (p # q /\ ret[p].buf = ret[q].buf) => (HandsDown(p, q) \/ HandsDown(q, p))
    /\ \A b \in DOMAIN readBy :
          \A rd \in readBy[b] :
             \/ rd[1] = owner[b]
             \/ rd[1] = <<0>>
             \/ \E p \in DOMAIN ret : ret[p].buf = b /\ rd[1] = Parent(p) /\ p # <<>>
    /\ status = "done" => heap = EmptyMap

\* a finished evaluation in which an AddGamma over an AddGamma returned the
\* buffer of the Sum below them, and the LcBeta above returned its own
OwnedExceptInPlaceWitness ==
    /\ status = "done"
    /\ \E p, q \in DOMAIN ret :
          /\ ret[p].tag = "AddGamma" /\ ret[Parent(p)].tag = "AddGamma"
          /\ ret[q].tag = "Sum" /\ ret[q].buf = ret[p].buf
          /\ Cardinality(readBy[ret[q].buf]) = 3
    /\ ret[<<>>].tag = "LcBeta"
    /\ owner[ret[<<>>].buf] = <<>>

----------------------------------------------------------------------------
(* Failure of a device operation.  Every create_buffer,                    *)
(* create_buffer_from_slice, create_kernel and run is followed by `?`: the *)
(* error leaves the arm at once, every enclosing arm returns it through    *)
(* its own `?` (dropping the buffers it holds), the closure returns it     *)
(* before read_into_buffer, and eval_gpu panics on run(..).unwrap().       *)

\* number of passes of do_fft (lines 400-429)
PassCount ==
    LET max_deg == Min(MAX_LOG2_RADIX, ExtendedK)
    IN (ExtendedK + max_deg - 1) \div max_deg

\* the fallible device operations of an arm, in program order
ArmOps(tag) ==
    CASE tag \in {"Sum", "Product"} -> <<"create_buffer", "create_kernel", "run">>
      [] tag \in {"Y", "LcTheta", "LcBeta"} ->
            <<"create_buffer", "create_buffer_from_slice", "create_kernel", "run">>
      [] tag = "AddGamma" -> <<"create_buffer_from_slice", "create_kernel", "run">>
      [] tag = "Unit" ->
            <<"create_buffer", "create_buffer_from_slice", "create_kernel", "run",
              "create_buffer", "create_buffer_from_slice", "create_buffer_from_slice">>
                \o [i \in 1 .. (2 * PassCount) |->
                      IF i % 2 = 1 THEN "create_kernel" ELSE "run"]
      [] OTHER -> <<>>

CountOps(ops, kinds) == Cardinality({i \in DOMAIN ops : ops[i] \in kinds})

\* the buffers a completed dispatch of the Unit arm has read
ReadsOf(launch) ==
    IF launch.kernel = "eval_fft_prepare" THEN {launch.plain[1]}
    ELSE {launch.plain[1], launch.plain[3], launch.plain[4]}

RECURSIVE AddLaunchReads(_, _)
AddLaunchReads(rb, ls) ==
    IF ls = <<>> THEN rb
    ELSE AddLaunchReads(AddReads(rb, ReadsOf(Head(ls)), Head(ls).node,
                                 Head(ls).kernel), Tail(ls))

DeviceFails_returns ==
    /\ status = "run" /\ pending # <<>>
    /\ \E i \in 1 .. Len(ArmOps(Head(pending)[2])) :
        /\ nextBuf' = nextBuf + 1
        /\ owner' = owner @@ (nextBuf :> PathNow)
        /\ ret' = ret @@ (PathNow :> Returned(Head(pending)[2], nextBuf, 0, Uninit(0)))
        /\ stack' = Append(stack, [buf |-> nextBuf, rot |-> 0])
        /\ heap' = heap @@ (nextBuf :> Uninit(0))
    /\ status' = "failed"
    /\ UNCHANGED <<algVars, lawVars, dofft, root, chal, seed, pending, ycache, kernelOut,
                   readBy, launches, fftPasses, output>>

\* the i-th fallible operation of the arm of the node being evaluated fails;
\* the Y arm has extended the y vector (lines 306-308) before its first
\* fallible operation (line 312)
DeviceFails ==
    /\ status = "run" /\ pending # <<>>
    /\ Head(pending)[2] = "Y" => DOMAIN Head(pending)[3] # {}
    /\ ycache' = IF Head(pending)[2] = "Y"
                 THEN ExtendYs(ycache, MaxOrder(DOMAIN Head(pending)[3]) + 1)
                 ELSE ycache
    /\ \E i \in 1 .. Len(ArmOps(Head(pending)[2])) :
        LET done == SubSeq(ArmOps(Head(pending)[2]), 1, i - 1)
            allocs == CountOps(done, {"create_buffer", "create_buffer_from_slice"})
            runs == CountOps(done, {"run"})
        IN /\ nextBuf' = nextBuf + allocs
           /\ owner' = owner @@ [b \in nextBuf .. (nextBuf + allocs - 1) |-> PathNow]
           /\ IF runs = 0
              THEN UNCHANGED <<launches, readBy, fftPasses>>
              ELSE \E g1, g2 \in GarbageVals :
                    LET u == Head(pending)[3]
                        h1 == heap @@ (nextBuf :> Uninit(g1))
                                   @@ ((nextBuf + 1) :>
                                        coeff_to_extended_without_fft(ColumnPoly(seed, u)))
                        h2 == [h1 EXCEPT ![nextBuf] =
                                  KernelFftPrepare(h1[nextBuf + 1], h1[nextBuf],
                                                   origin_size, AllThreads)]
                    IN \E fft \in {do_fft(h2, nextBuf, nextBuf + 2, g2)} :
                       \E ran \in {SubSeq(UnitLaunches(PathNow, nextBuf, fft.passes),
                                          1, runs)} :
                          /\ launches' = launches \o ran
                          /\ readBy' = AddLaunchReads(readBy, ran)
                          /\ fftPasses' = IF i > 4 THEN SubSeq(fft.passes, 1, runs - 1)
                                          ELSE fftPasses
    /\ heap' = EmptyMap
    /\ stack' = <<>>
    /\ status' = "failed"
    /\ UNCHANGED <<algVars, lawVars, dofft, root, chal, seed, pending, ret,
                   kernelOut, output>>

\* lines 111 and 227: program.read_into_buffer(&values_buf.0, input)? fails
\* after every arm has returned; the closure returns the error, the result
\* buffer is dropped and eval_gpu panics on run(..).unwrap() (127, 242)
ReadIntoBufferFails ==
    /\ status = "run"
    /\ pending = <<>>
    /\ heap' = EmptyMap
    /\ stack' = <<>>
    /\ status' = "failed"
    /\ UNCHANGED <<algVars, lawVars, dofft, root, chal, seed, pending, nextBuf, owner,
                   ycache, ret, kernelOut, readBy, fftPasses, launches, output>>

NextEvalFault ==
    \/ NextEval
    \/ DeviceFails
    \/ ReadIntoBufferFails

SpecEvalFault == InitEval /\ [][NextEvalFault]_vars

\* the node whose arm failed and its ancestors
FailedPath(p) == status = "failed" /\ pending # <<>> /\ IsPrefix(p, PathNow)

\* C11: once a buffer allocation, a kernel creation or a kernel dispatch has
\* failed at a node, no further buffer is allocated, no further kernel is
\* dispatched and nothing is retried; neither the failing node nor any of its
\* ancestors returns a buffer, no returned buffer is left with a caller, and
\* no result polynomial is read back.  (A failed state with no node left is
\* the failure of the read-back itself: nothing is read back either.)
FailureIsFatal ==
    /\ [][status = "failed" =>
            UNCHANGED <<nextBuf, owner, launches, readBy, ret, stack, heap, pending,
                        ycache, output, status>>]_vars
    /\ [](status = "failed" =>
            /\ output = None
            /\ stack = <<>>
            /\ heap = EmptyMap
            /\ \A p \in DOMAIN ret : ~FailedPath(p)
            /\ pending # <<>> => PathNow \notin DOMAIN ret)

\* a dispatch fails in the arm of an inner node that had already created a
\* buffer, after its children returned and with ancestors still waiting
FailureIsFatalWitness ==
    /\ status = "failed"
    /\ Len(pending) > 1
    /\ PathNow \o <<1>> \in DOMAIN ret
    /\ \E b \in DOMAIN owner : owner[b] = PathNow
    /\ launches # <<>>

----------------------------------------------------------------------------
(* Deferred shifts.                                                        *)

\* the subtree of t at path p
RECURSIVE NodeAt(_, _)
NodeAt(t, p) == IF p = <<>> THEN t ELSE NodeAt(t[p[1] + 1], Tail(p))

\* the dispatches that were given buffer b as an operand with a shift
ShiftedUses(b) ==
    {<<j, a>> \in (DOMAIN launches) \X {1, 2} :
        a \in DOMAIN launches[j].shifted /\ launches[j].shifted[a][1] = b}

\* C12: a Unit node returns the shift rotation * 2^(extended_k - k), every
\* Sum, Product, Y, LcTheta, LcBeta and AddGamma node returns the shift 0, and
\* a non-zero shift returned to a combining node is given, together with the
\* buffer it came with, to the kernel of that node and to no other kernel.
DeferredShiftBookkeeping ==
    /\ \A p \in DOMAIN ret :
          /\ ret[p].tag = "Unit" =>
                ret[p].rot = NodeAt(root, p)[2][3] * Pow2(ExtendedK - K)
          /\ ret[p].tag \in {"Sum", "Product", "Y", "LcTheta", "LcBeta", "AddGamma"} =>
                ret[p].rot = 0
    /\ \A p \in KernelNodes :
          \A c \in ChildrenOf(p) :
             ret[c].rot # 0 =>
                /\ \E u \in ShiftedUses(ret[c].buf) :
                      /\ launches[u[1]].node = p
                      /\ launches[u[1]].shifted[u[2]] = <<ret[c].buf, ret[c].rot>>
                      /\ u[2] = c[Len(c)]
                /\ Cardinality(ShiftedUses(ret[c].buf)) = 1

\* a Unit with rotation -1 returned a negative shift that the Product above
\* it gave to its kernel, and a Unit with rotation +1 a positive one
DeferredShiftBookkeepingWitness ==
    /\ status = "done"
    /\ \E p, q \in DOMAIN ret :
          /\ ret[p].tag = "Unit" /\ ret[p].rot = -(Pow2(ExtendedK - K))
          /\ ret[Parent(p)].tag = "Product"
          /\ ret[q].tag = "Unit" /\ ret[q].rot = Pow2(ExtendedK - K)
          /\ \E j \in DOMAIN launches :
                /\ launches[j].kernel = "eval_mul"
                /\ launches[j].shifted[1] = <<ret[p].buf, ret[p].rot>>

----------------------------------------------------------------------------
(* The pass loop of do_fft, one step per iteration, for every domain size. *)
(* dofft holds the locals log_n, max_deg, log_p, src_buffer, dst_buffer,   *)
(* the passes dispatched so far and, once returned, the result.            *)

\* largest extended_k tried (1u32 << log_n stays below 2^32)
MaxLogN == 28

\* lines 404-408 with every pass taking the full radix
fft_pass_full_radix(log_n, log_p, max_deg) ==
    LET deg == max_deg
        n == Pow2(log_n)
    IN [deg |-> deg,
        lws |-> Pow2(Min(deg - 1, MAX_LOG2_LOCAL_WORK_SIZE)),
        gws |-> n \div Pow2(deg)]

\* lines 404-408: deg, local_work_size and global_work_size of a pass
fft_pass(log_n, log_p, max_deg) ==
    LET deg == Min(max_deg, log_n - log_p)
        n == Pow2(log_n)
    IN [deg |-> deg,
        lws |-> Pow2(Min(deg - 1, MAX_LOG2_LOCAL_WORK_SIZE)),
        gws |-> n \div Pow2(deg)]

\* lines 364-400: values is buffer 0, dst_buffer the next one created
InitFft ==
    /\ gates = <<>> /\ acc = new /\ flat = None /\ plan = None /\ degree = None
    /\ phase = "build"
    /\ opA = None /\ opB = None /\ opC = None
    /\ resL = None /\ resR = None
    /\ law = "none"
    /\ root = None /\ chal = None /\ seed = 0
    /\ pending = <<>> /\ stack = <<>>
    /\ heap = EmptyMap /\ nextBuf = 0 /\ owner = EmptyMap
    /\ ycache = <<>> /\ ret = EmptyMap /\ kernelOut = EmptyMap /\ readBy = EmptyMap
    /\ fftPasses = <<>> /\ output = None
    /\ status = "idle"
    /\ launches = <<>>
    /\ \E log_n \in 1 .. MaxLogN :
          dofft = [pc |-> "loop", log_n |-> log_n,
                   max_deg |-> Min(MAX_LOG2_RADIX, log_n),
                   log_p |-> 0, src_buffer |-> 0, dst_buffer |-> 1,
                   passes |-> <<>>, result |-> None]

\* lines 402-429: one iteration of while log_p < log_n
FftPass ==
    /\ dofft # None /\ dofft.pc = "loop"
    /\ dofft.log_p < dofft.log_n
    /\ LET ps == fft_pass(dofft.log_n, dofft.log_p, dofft.max_deg)
       IN dofft' = [dofft EXCEPT
                       !.passes = Append(@, [log_p |-> dofft.log_p, deg |-> ps.deg,
                                             gws |-> ps.gws, lws |-> ps.lws,
                                             src |-> dofft.src_buffer,
                                             dst |-> dofft.dst_buffer]),
                       !.log_p = dofft.log_p + ps.deg,
                       !.src_buffer = dofft.dst_buffer,
                       !.dst_buffer = dofft.src_buffer]
    /\ UNCHANGED <<algVars, lawVars, root, chal, seed, pending, stack, heap, nextBuf,
                   owner, ycache, ret, kernelOut, readBy, fftPasses, output, status,
                   launches>>

\* line 431: Ok(src_buffer)
FftReturn ==
    /\ dofft # None /\ dofft.pc = "loop"
    /\ ~(dofft.log_p < dofft.log_n)
    /\ dofft' = [dofft EXCEPT !.pc = "done", !.result = dofft.src_buffer]
    /\ UNCHANGED <<algVars, lawVars, root, chal, seed, pending, stack, heap, nextBuf,
                   owner, ycache, ret, kernelOut, readBy, fftPasses, output, status,
                   launches>>

NextFft == FftPass \/ FftReturn

SpecFft == InitFft /\ [][NextFft]_vars

\* the host runs the loop to its end
SpecFftFair == SpecFft /\ WF_vars(NextFft)

FftPassesWellFormed ==
    /\ dofft.max_deg = Min(8, dofft.log_n)
    /\ dofft.log_p <= dofft.log_n
    /\ \A i \in DOMAIN dofft.passes :
          LET ps == dofft.passes[i]
          IN /\ ps.log_p = (IF i = 1 THEN 0
                            ELSE dofft.passes[i - 1].log_p + dofft.passes[i - 1].deg)
             /\ ps.deg = Min(dofft.max_deg, dofft.log_n - ps.log_p)
             /\ 1 <= ps.deg /\ ps.deg <= dofft.max_deg
             /\ ps.gws * Pow2(ps.deg) = Pow2(dofft.log_n)
             /\ ps.src # ps.dst
             /\ i > 1 => (ps.src = dofft.passes[i - 1].dst
                            /\ ps.dst = dofft.passes[i - 1].src)
    /\ dofft.pc = "done" =>
          /\ dofft.log_p = dofft.log_n
          /\ dofft.passes # <<>>
          /\ dofft.result = dofft.passes[Len(dofft.passes)].dst

\* C13: for every extended_k from 1 up, the pass loop ends, with log_p equal
\* to extended_k and never above it; each pass has
\* deg = min(max_deg, extended_k - log_p), 1 <= deg <= max_deg =
\* min(8, extended_k), and n / 2^deg work groups; source and destination are
\* exchanged after each pass and the buffer returned is the destination of
\* the last pass.
FftPassLoop == [](FftPassesWellFormed) /\ <>(dofft.pc = "done")

\* extended_k = 11: a pass of radix 2^8 and a last one of radix 2^3, the
\* result being the buffer the caller passed in
FftPassLoopWitness ==
    /\ dofft # None /\ dofft.pc = "done"
    /\ dofft.log_n = 11
    /\ Len(dofft.passes) = 2
    /\ dofft.passes[1].deg = 8 /\ dofft.passes[2].deg = 3
    /\ dofft.result = 0

----------------------------------------------------------------------------
(* The y-power cache.                                                      *)

\* the nodes of the tree under evaluation that are Y nodes and have returned
ReturnedYs == {p \in DOMAIN ret : ret[p].tag = "Y"}

\* C14: the cache of the invocation starts as [1, y] and only grows, its
\* entry i is y^i at every moment, and once a Y node of maximum order m has
\* returned the cache has at least m + 1 entries and the node's buffer holds
\* the sum of coefficient[i] * y^i at every index.
YCacheHoldsPowers ==
    /\ [](status \in {"run", "done"} =>
            /\ Len(ycache) >= 2
            /\ \A i \in 1 .. Len(ycache) : ycache[i] = FPow(chal.y, i - 1))
    /\ [][Len(ycache') >= Len(ycache)
            /\ SubSeq(ycache', 1, Len(ycache)) = ycache]_vars
    /\ [](\A p \in ReturnedYs :
            LET coeff == NodeAt(root, p)[2]
            IN /\ Len(ycache) >= MaxOrder(DOMAIN coeff) + 1
               /\ \A i \in 0 .. (size - 1) :
                     ret[p].val[i] = YsValue(coeff, DOMAIN coeff, chal.y))

\* Y nodes of maximum orders 0, 2, 5 and 3 returned in this order: the cache
\* grew twice, to six entries, and was long enough for the last node
YCacheHoldsPowersWitness ==
    /\ status = "done"
    /\ chal.y = 2
    /\ Cardinality(ReturnedYs) = 4
    /\ Len(ycache) = 6
    /\ ycache[6] = 32
    /\ \E p \in ReturnedYs :
          /\ MaxOrder(DOMAIN NodeAt(root, p)[2]) = 3
          /\ ret[p].val[0] = 48

----------------------------------------------------------------------------
(* Coefficient mappings are never empty.                                   *)

\* the coefficient mappings of the Y nodes of a tree
YMaps(e) == {t[2] : t \in {x \in Subtrees(e) : x[1] = "Y"}}

\* C15: the accumulator built by new, from_expr and add_gate, the canonical
\* map flatten makes of it and the tree reconstruct makes of that map hold no
\* empty coefficient mapping (and the canonical map has at least one key), so
\* ys.keys().max() is defined at every Y node.
NoEmptyCoefficientMapping ==
    /\ \A ys \in YMaps(acc) : DOMAIN ys # {}
    /\ phase \in {"flat", "plan", "sized"} =>
          /\ DOMAIN flat # {}
          /\ \A k \in DOMAIN flat : DOMAIN flat[k] # {}
    /\ phase \in {"plan", "sized"} =>
          /\ plan # Panic
          /\ \A ys \in YMaps(plan) :
                DOMAIN ys # {} /\ MaxOrder(DOMAIN ys) \in DOMAIN ys

\* a1*a0 - a0*a1 was folded in: its monomial is kept with the coefficient
\* mapping {0: 0}, and the plan has a Y node for it
NoEmptyCoefficientMappingWitness ==
    /\ phase = "sized"
    /\ GateCancel \in {gates[i] : i \in DOMAIN gates}
    /\ \E k \in DOMAIN flat :
          /\ Len(k) = 2
          /\ DOMAIN flat[k] # {}
          /\ \A o \in DOMAIN flat[k] : flat[k][o] = 0
          /\ flat[k] \in YMaps(plan)

----------------------------------------------------------------------------
(* reconstruct terminates and does not fail.                               *)

RECURSIVE SumOccurrences(_, _)
SumOccurrences(tree, us) ==
    IF us = {} THEN 0
    ELSE LET u == MinUnit(us)
         IN Occurrences(tree, u) + SumOccurrences(tree, us \ {u})

\* total number of unit occurrences in the pairs of a call
TotalOccurrences(tree) == SumOccurrences(tree, UnitsIn(tree))

\* C16: reconstruct of the canonical map returns a tree.  In every call of
\* _reconstruct the pairs have pairwise distinct unit multisets; a call on two
\* or more pairs has a unit to factor, the pairs holding the chosen unit are
\* not empty, the call on them has strictly fewer unit occurrences and no
\* more pairs, and the call on the other pairs has strictly fewer pairs and
\* no more unit occurrences.
ReconstructTerminates ==
    phase \in {"plan", "sized"} =>
        /\ plan # Panic
        /\ \A tree \in CallsOfPlan :
              /\ Len(tree) >= 1
              /\ \A i, j \in 1 .. Len(tree) : i # j => tree[i][1] # tree[j][1]
              /\ Len(tree) >= 2 =>
                    /\ HasUnit(tree)
                    /\ LET max_u == find_max(tree)
                           l == PartL(tree, max_u)
                           r == PartR(tree, max_u)
                       IN /\ Len(l) >= 1
                          /\ Len(l) + Len(r) = Len(tree)
                          /\ Len(l) <= Len(tree)
                          /\ TotalOccurrences(l) < TotalOccurrences(tree)
                          /\ Len(r) < Len(tree)
                          /\ TotalOccurrences(r) <= TotalOccurrences(tree)
                          /\ l \in CallsOfPlan
                          /\ r # <<>> => r \in CallsOfPlan

\* a call in which every pair holds the chosen unit (only the occurrences
\* decrease), and one in which pairs hold the chosen unit twice and the
\* unit-free pair is left aside
ReconstructTerminatesWitness ==
    /\ phase = "plan"
    /\ \E t1, t2 \in CallsOfPlan :
          /\ Len(t1) >= 2 /\ PartR(t1, find_max(t1)) = <<>>
          /\ Len(t2) >= 3 /\ PartR(t2, find_max(t2)) # <<>>
          /\ \E i \in 1 .. Len(t2) : DOMAIN t2[i][1] = {}
          /\ \E i \in 1 .. Len(t2) :
                /\ find_max(t2) \in DOMAIN t2[i][1]
                /\ t2[i][1][find_max(t2)] = 2

----------------------------------------------------------------------------
(* flatten after reconstruct.                                              *)

\* C17: flatten(reconstruct(flatten(e))) is the canonical map flatten(e): the
\* same keys, each a sorted vector of units, no two of them the same multiset
\* of units, and for each key the same y-orders with the same coefficients.
FlattenReconstructRoundTrip ==
    law = "roundtrip" =>
        /\ DOMAIN resL # {}
        /\ DOMAIN resR = DOMAIN resL
        /\ \A k \in DOMAIN resL :
              /\ DOMAIN resR[k] = DOMAIN resL[k]
              /\ \A o \in DOMAIN resL[k] : resR[k][o] = resL[k][o]
        /\ \A k \in DOMAIN resR : SortUnits(k) = k
        /\ \A k1, k2 \in DOMAIN resR : k1 # k2 => UnitCounts(k1) # UnitCounts(k2)

\* a canonical map with a repeated unit in a key, a key with several
\* y-orders and a coefficient that is zero
FlattenReconstructRoundTripWitness ==
    /\ law = "roundtrip"
    /\ resR = resL
    /\ Cardinality(DOMAIN resL) >= 3
    /\ <<UnitA0, UnitA0>> \in DOMAIN resL
    /\ \E k \in DOMAIN resL :
          /\ Cardinality(DOMAIN resL[k]) >= 2
          /\ \E o \in DOMAIN resL[k] : resL[k][o] = 0
          /\ \E o \in DOMAIN resL[k] : resL[k][o] # 0

====
